---------------------------- MODULE Spec2Model ----------------------------
(***************************************************************************)
(* A model of watermark_remover.py: the perceptual frame cache             *)
(* (FrameCache), the temporal skip detector (FrameSkipDetector), the       *)
(* watermark localization (WatermarkDetector.generate_mask) and the        *)
(* per-frame pipeline (WatermarkProcessor.process_frame driven by          *)
(* process_video.process_frame_wrapper).                                   *)
(*                                                                         *)
(* Representation.  A two-dimensional array (a frame, a region, a          *)
(* processed region, a mask) is a function from the coordinates (y, x) of  *)
(* its cells, counted from 0.  A pixel stands for its luminance: the       *)
(* channel conversions of the source (cv2.cvtColor) act on what the model  *)
(* does not distinguish.  None is the empty tuple, so that it compares     *)
(* with every array.  A Python dict is a sequence of [k, v] records in     *)
(* insertion order.  An object is the record of its fields, and a method   *)
(* is an operator from the object (self) and the arguments to the object   *)
(* after the call and the value returned.                                  *)
(*                                                                         *)
(* Library calls.  The calls that compute are modelled by what they        *)
(* compute: cv2.resize and PIL's resize in their 8-bit fixed-point         *)
(* arithmetic, and the DCT of imagehash.phash in exact arithmetic on a     *)
(* table of 22 binary digits, where the library rounds floats: a           *)
(* coefficient that equals the median is not above it.  The float32        *)
(* arithmetic of the blend (cv2.GaussianBlur, the division by 255 and the  *)
(* weighted sum) is bounded, not replayed: where the blurred mask is 0 the *)
(* pixel written is the original one, and elsewhere it is one of the       *)
(* truncations of the exact value less and plus 2^-10, a bound on the      *)
(* rounding errors of the float32 operations.  The float64 quotient of     *)
(* select_roi is computed as IEEE 754 rounds it.  cv2.selectROI,           *)
(* cv2.threshold (Otsu) and the inpainting model are inputs: any rectangle *)
(* of the display, any binary image, any returned                          *)
(* buffer or an exception.                                                 *)
(***************************************************************************)
EXTENDS Integers, Sequences, FiniteSets, TLC

(***************************************************************************)
(* Bounds of the model.                                                    *)
(***************************************************************************)
\* height and width of a region given to a stand-alone cache, skip detector
\* or processor
RegionLen == 3
\* the gray level of a bright pixel (dark pixels are 0)
Gray == 8
\* largest cache capacity tried for a stand-alone FrameCache
MaxCap == 3
\* the similarity threshold tried for a stand-alone FrameCache besides 0
MaxThr == 2
\* cap on an entry's access counter
MaxCount == 2
\* largest keyframe interval tried for a stand-alone FrameSkipDetector
MaxK == 5
\* largest frame index given to a stand-alone FrameSkipDetector
MaxIndex == 15
\* number of frames of a video
MaxFrames == 6
\* height and width of a frame given to the WatermarkDetector
FrameH == 2
FrameW == 3
\* number of frames sampled by generate_mask
NumSamples == 3
\* largest dilation kernel size tried
MaxKernel == 2
\* largest margin given to get_roi_coordinates
MaxMargin == 1
\* largest number of pixels of the region of a processor given whole frames
MaxBlendCells == 4
\* number of whole frames given to a processor built on a sub-rectangle
BlendFrames == 2
\* number of calls of process_frame made on a stand-alone WatermarkProcessor
MaxCalls == 2
\* largest number of videos of a batch
MaxVideos == 2
\* largest number of frames of a video of a batch
BatchFrames == 1

(***************************************************************************)
(* Program constants.                                                      *)
(***************************************************************************)
\* FrameCache(cache_size=100, ...) in WatermarkProcessor.__init__
ProcCacheSize == 100
\* FrameCache(..., similarity_threshold=3) in WatermarkProcessor.__init__
ProcSimilarityThreshold == 3
\* FrameSkipDetector(keyframe_interval=5, ...) in WatermarkProcessor.__init__
ProcKeyframeInterval == 5
\* FrameSkipDetector(..., scene_change_threshold=50.0)
ProcSceneChangeThreshold == 50
\* the gray level a float64 output in [0, 1] is scaled by in lama_inpaint
FloatScale == 255
\* the value of a foreground pixel of a mask
Foreground == 255
\* the number of values of a uint8, the type of the vote counts
Uint8Range == 256
\* WatermarkDetector(num_sample_frames=10, min_frame_count=7,
\* dilation_kernel_size=7): the detector that __main__ builds
DefaultSampleFrames == 10
DefaultMinFrameCount == 7
DefaultKernelSize == 7
\* cv2.dilate(..., iterations=2) in generate_mask
DilateIterations == 2
\* margin = 50 in process_video
ProcMargin == 50
\* cv2.resize(roi, (64, 64)) in compute_hash
ResizeSide == 64
\* hash_size = 8 and highfreq_factor = 4 of imagehash.phash: the image is
\* resized to 32 x 32 and the lowest 8 x 8 coefficients make the hash
HashSize == 8
HighfreqFactor == 4
ImgSize == HashSize * HighfreqFactor
\* INTER_RESIZE_COEF_SCALE of cv2.resize and PRECISION_BITS of PIL's resize
CoefScale == 2048
PrecisionBits == 22
\* cv2.GaussianBlur(..., (21, 21), 0) in process_frame
KernelSize == 21
\* display_height = 720 in select_roi
DisplayHeight == 720
\* the number of binary digits of the fraction of a float64, the type of
\* scale_factor in select_roi
MantissaBits == 52

None == << >>

(***************************************************************************)
(* Two-dimensional arrays.                                                 *)
(***************************************************************************)
Min2(a, b) == IF a <= b THEN a ELSE b

Max2(a, b) == IF a >= b THEN a ELSE b

\* the largest value of a non-empty set of pixel values
MaxValue(values) == CHOOSE v \in values : \A w \in values : w <= v

MinOf(values) == CHOOSE v \in values : \A w \in values : v <= w

\* shape[0] and shape[1] of a two-dimensional array
Height(grid) == Cardinality({p[1] : p \in DOMAIN grid})

Width(grid) == Cardinality({p[2] : p \in DOMAIN grid})

\* grid[y_min:y_max, x_min:x_max]: a slice stops at the end of the array
Slice(grid, c) ==
    LET top == Min2(c.y_min, Height(grid))
        left == Min2(c.x_min, Width(grid))
        rows == Max2(0, Min2(c.y_max, Height(grid)) - top)
        cols == Max2(0, Min2(c.x_max, Width(grid)) - left)
    IN  [p \in (0..(rows - 1)) \X (0..(cols - 1)) |-> grid[<<top + p[1], left + p[2]>>]]

(***************************************************************************)
(* The arrays given to the program.                                        *)
(***************************************************************************)
RegionCells == (0..(RegionLen - 1)) \X (0..(RegionLen - 1))

\* The regions offered as frame content.  Dark is black: every coefficient
\* of its transform is zero and its hash has no bit set.  The others are
\* textured: no coefficient of theirs equals the median, so that the 64
\* bits of their hashes do not depend on the rounding of the transform.
Dark == [p \in RegionCells |-> 0]

Texture == [p \in RegionCells |-> (41 * p[1] + 67 * p[2] + 23 * p[1] * p[2]) % 251]

Other == [p \in RegionCells |-> (53 * p[1] + 17 * p[2] + 89 * p[1] * p[2]) % 239]

\* Texture with pixel at brighter by d
Spot(at, d) == [p \in RegionCells |-> IF p = at THEN Texture[p] + d ELSE Texture[p]]

\* With RegionLen = 3 the hash of the spot at (1, 1) is 4 bits from
\* Texture's and those of the spots at (1, 0) and (0, 2) are 2 bits from it;
\* Dark and Other are 28 bits or more from every other region.  The mean
\* squared difference of the spot at (1, 0) and Texture is 235, that of the
\* other spots and Texture below 1.
Regions == {Dark, Texture, Spot(<<1, 1>>, 1), Spot(<<1, 0>>, 46)}

\* the regions given to a stand-alone FrameCache
CacheRegions == {Dark, Texture, Spot(<<0, 2>>, 2), Other}

Uniform(v) == [p \in RegionCells |-> v]

\* the pixel coordinates (y, x) of a frame
Coords == (0..(FrameH - 1)) \X (0..(FrameW - 1))

\* the rectangles (y_min, y_max, x_min, x_max) of a frame
Rects ==
    {[y_min |-> top, y_max |-> bottom, x_min |-> left, x_max |-> right] :
        top \in 0..(FrameH - 1), bottom \in 1..FrameH,
        left \in 0..(FrameW - 1), right \in 1..FrameW}

\* the frames given: a bright frame and a chequered one
Frames ==
    {[p \in Coords |-> Gray],
     [p \in Coords |-> IF (p[1] + p[2]) % 2 = 0 THEN Gray ELSE 0]}

\* the rectangles given to a WatermarkProcessor as its region: those of at
\* most MaxBlendCells pixels
BlendRects ==
    {c \in Rects : /\ c.y_min < c.y_max /\ c.x_min < c.x_max
                   /\ (c.y_max - c.y_min) * (c.x_max - c.x_min) <= MaxBlendCells}

\* the masks given for a rectangle: no foreground, all foreground, or one
\* foreground cell
MasksOf(c) ==
    LET cells == (0..(c.y_max - c.y_min - 1)) \X (0..(c.x_max - c.x_min - 1)) IN
    {[p \in cells |-> 0], [p \in cells |-> Foreground]}
    \cup {[p \in cells |-> IF p = fg THEN Foreground ELSE 0] : fg \in cells}

\* A strip: a frame of one row whose pixels but the first make a region
\* wider than the reach of the Gaussian kernel, with a mask that marks the
\* first pixel of the region.
StripW == KernelSize \div 2 + 3

StripFrame == [p \in {0} \X (0..(StripW - 1)) |-> Gray \div 2]

StripRect == [y_min |-> 0, y_max |-> 1, x_min |-> 1, x_max |-> StripW]

StripMask == [p \in {0} \X (0..(StripW - 2)) |-> IF p[2] = 0 THEN Foreground ELSE 0]

\* the frame sizes of the videos of a batch
VideoSizes ==
    {[h |-> FrameH, w |-> FrameW], [h |-> FrameH + 1, w |-> FrameW],
     [h |-> FrameH - 1, w |-> FrameW - 1]}

\* a frame of a video, of one gray level
VideoFrame(video, v) == [p \in (0..(video.h - 1)) \X (0..(video.w - 1)) |-> v]

(***************************************************************************)
(* Python's insertion-ordered dict.                                        *)
(***************************************************************************)
DictKeys(d) == {d[i].k : i \in 1..Len(d)}

DictIndex(d, key) == CHOOSE i \in 1..Len(d) : d[i].k = key

DictGet(d, key) == d[DictIndex(d, key)].v

\* d[key] = val: an existing key keeps its position, a new key goes last
DictSet(d, key, val) ==
    IF key \in DictKeys(d)
    THEN [d EXCEPT ![DictIndex(d, key)].v = val]
    ELSE Append(d, [k |-> key, v |-> val])

\* del d[key]
DictDel(d, key) == SelectSeq(d, LAMBDA e : e.k # key)

(***************************************************************************)
(* Exact arithmetic.  A number is the tuple of its digits in base          *)
(* LimbBase, the least significant first; in a normal form the digits are  *)
(* in 0..LimbBase - 1 but for the last, which carries the sign.            *)
(***************************************************************************)
LimbBase == 2 ^ 11

\* the n digits of a natural number
Digits(v, n) == [k \in 1..n |-> (v \div LimbBase ^ (k - 1)) % LimbBase] @@ << >>

\* the normal form of the digits of w from position k on, with carry c: one
\* digit more than w has
RECURSIVE Carry(_, _, _)
Carry(w, k, c) ==
    IF k > Len(w) THEN <<c>>
    ELSE <<(w[k] + c) % LimbBase>> \o Carry(w, k + 1, (w[k] + c) \div LimbBase)

\* digit j of a * b before the carries, from digit k of a on
RECURSIVE ProdDigit(_, _, _, _)
ProdDigit(a, b, j, k) ==
    IF k > Len(a) \/ k > j THEN 0
    ELSE (IF j - k + 1 <= Len(b) THEN a[k] * b[j - k + 1] ELSE 0)
         + ProdDigit(a, b, j, k + 1)

\* digit j of the sum of the as[i] * bs[i] before the carries, from
\* position i on
RECURSIVE DotDigit(_, _, _, _)
DotDigit(as, bs, j, i) ==
    IF i > Len(as) THEN 0
    ELSE ProdDigit(as[i], bs[i], j, 1) + DotDigit(as, bs, j, i + 1)

\* the sum of the as[i] * bs[i], in normal form
Dot(as, bs) ==
    Carry([j \in 1..(Len(as[1]) + Len(bs[1]) - 1) |-> DotDigit(as, bs, j, 1)] @@ << >>,
          1, 0)

\* d * w for an integer d, in normal form
Times(d, w) == Carry([k \in 1..Len(w) |-> d * w[k]] @@ << >>, 1, 0)

\* a + b, in normal form
Plus(a, b) == Carry([k \in 1..Len(a) |-> a[k] + b[k]] @@ << >>, 1, 0)

\* the sign of a - b for a and b in normal form, decided from digit k down
RECURSIVE Compare(_, _, _)
Compare(a, b, k) ==
    IF k = 0 THEN 0
    ELSE IF a[k] < b[k] THEN -1
    ELSE IF a[k] > b[k] THEN 1
    ELSE Compare(a, b, k - 1)

\* the floor of a number in normal form whose digits up to position frac are
\* a fraction, taken from digit k on
RECURSIVE Floor(_, _, _)
Floor(w, frac, k) ==
    IF k > Len(w) THEN 0
    ELSE IF k <= frac THEN Floor(w, frac, k + 1)
    ELSE w[k] + LimbBase * Floor(w, frac, k + 1)

\* the largest e with 2^e <= v, for v >= 1
RECURSIVE Log2(_)
Log2(v) == IF v < 2 THEN 0 ELSE 1 + Log2(v \div 2)

\* the smallest j with a * 2^j >= b
RECURSIVE ShiftsTo(_, _)
ShiftsTo(a, b) == IF a >= b THEN 0 ELSE 1 + ShiftsTo(2 * a, b)

\* 2^k modulo m
RECURSIVE PowMod(_, _)
PowMod(k, m) == IF k = 0 THEN 1 % m ELSE (2 * PowMod(k - 1, m)) % m

(***************************************************************************)
(* FrameCache                                                              *)
(***************************************************************************)
\* FrameCache.__init__
FrameCacheInit(size, threshold) ==
    [cache |-> << >>, cache_size |-> size,
     similarity_threshold |-> threshold, access_count |-> << >>]

\* the rows of a two-dimensional array, each a tuple of pixels
Rows(grid) ==
    [i \in 1..Height(grid) |->
        [j \in 1..Width(grid) |-> grid[<<i - 1, j - 1>>]] @@ << >>] @@ << >>

\* the distinct rows of an image
RowSet(img) == {img[i] : i \in 1..Len(img)}

\* the rows of an image, each replaced by what done has for it
MapRows(img, done) == [i \in 1..Len(img) |-> done[img[i]]] @@ << >>

Transpose(img) ==
    [j \in 1..Len(img[1]) |-> [i \in 1..Len(img) |-> img[i][j]] @@ << >>] @@ << >>

\* cv2.resize, INTER_LINEAR: the source position s (the floor of the
\* position of pixel d of dsize in the source of ssize, which is -1 before
\* the centre of the first source pixel) and the weights a0 and a1, in units
\* of 1 / CoefScale, of source pixels s and s + 1
LinearCoef(d, ssize, dsize) ==
    LET t == (2 * d + 1) * ssize - dsize
        s == t \div (2 * dsize)
        f == ((t - s * 2 * dsize) * CoefScale) \div (2 * dsize)
    IN  [s |-> s, a0 |-> CoefScale - f, a1 |-> f]

\* the table of the columns (xofs and alpha): a position before the first
\* source pixel or from the last one on is moved onto the pixel, with the
\* whole weight
ColumnCoef(d, ssize, dsize) ==
    LET c == LinearCoef(d, ssize, dsize)
    IN  IF c.s < 0 THEN [s |-> 0, a0 |-> CoefScale, a1 |-> 0]
        ELSE IF c.s >= ssize - 1 THEN [s |-> ssize - 1, a0 |-> CoefScale, a1 |-> 0]
        ELSE c

\* the horizontal pass of cv2.resize on a row: pixels times CoefScale
HResizeLinear(row) ==
    [d \in 1..ResizeSide |->
        LET c == ColumnCoef(d - 1, Len(row), ResizeSide) IN
        row[c.s + 1] * c.a0 + (IF c.a1 = 0 THEN 0 ELSE row[c.s + 2] * c.a1)] @@ << >>

\* row y of n rows, brought into 0..n - 1
ClipRow(y, n) == Min2(Max2(y, 0), n - 1)

\* the vertical pass of cv2.resize on a column of the horizontal pass: the
\* table of the rows (yofs and beta) keeps the weights of LinearCoef, and the
\* two rows they apply to are clipped to the image
VResizeLinear(col) ==
    [d \in 1..ResizeSide |->
        LET c == LinearCoef(d - 1, Len(col), ResizeSide) IN
        (((c.a0 * (col[ClipRow(c.s, Len(col)) + 1] \div 16)) \div 65536)
            + ((c.a1 * (col[ClipRow(c.s + 1, Len(col)) + 1] \div 16)) \div 65536)
            + 2) \div 4] @@ << >>

\* the horizontal pass on every row, the vertical pass on every column
\* (given as a row)
ResizeRows(img) == MapRows(img, [r \in RowSet(img) |-> HResizeLinear(r)] @@ << >>)

ResizeCols(img) == MapRows(img, [r \in RowSet(img) |-> VResizeLinear(r)] @@ << >>)

\* cv2.resize(roi, (64, 64)) on the rows of a region
resize(src) == Transpose(ResizeCols(Transpose(ResizeRows(src))))

\* PIL's resize from 64 to 32 with the Lanczos filter (support 3, scale 2):
\* the weights, in units of 2^-PrecisionBits, of the 12 source pixels from
\* 2 * xx - 5 on that make pixel xx ...
LanczosInner ==
    <<15473, 63150, -142601, -279497, 568350, 1872276,
      1872276, 568350, -279497, -142601, 63150, 15473>>

\* ... and of the source pixels from 0 on that make pixels 0, 1 and 2, whose
\* windows the edge of the image cuts (pixels 31, 30 and 29 mirror them)
LanczosEdge ==
    <<<<1978344, 1978344, 600549, -295331, -150679, 66728, 16350>>,
      <<-275298, 559811, 1844147, 1844147, 559811, -275298, -140458, 62201, 15241>>,
      <<63384, -143129, -280532, 570455, 1879209, 1879209, 570455, -280532, -143129,
        63384, 15531>>>>

Reverse(s) == [i \in 1..Len(s) |-> s[Len(s) + 1 - i]]

\* the first source pixel and the weights of pixel xx
Coeffs(xx) ==
    IF xx < 3 THEN [xmin |-> 0, k |-> LanczosEdge[xx + 1]]
    ELSE IF xx > ImgSize - 4
         THEN [xmin |-> 2 * xx - 5, k |-> Reverse(LanczosEdge[ImgSize - xx])]
         ELSE [xmin |-> 2 * xx - 5, k |-> LanczosInner]

\* PIL's clip8
clip8(v) == Max2(0, Min2(255, v \div (2 ^ PrecisionBits)))

\* the sum of the weights k from position i on times the pixels of the row
\* from xmin + i on
RECURSIVE Weighted(_, _, _, _)
Weighted(row, k, i, xmin) ==
    IF i > Len(k) THEN 0 ELSE k[i] * row[xmin + i] + Weighted(row, k, i + 1, xmin)

\* one pass of PIL's resize on a row
Resample(row) ==
    [xx \in 1..ImgSize |->
        LET c == Coeffs(xx - 1) IN
        clip8(2 ^ (PrecisionBits - 1) + Weighted(row, c.k, 1, c.xmin))] @@ << >>

\* image.convert("L").resize((32, 32), Image.LANCZOS) in imagehash.phash: the
\* horizontal pass, then the vertical one
ResampleRows(img) == MapRows(img, [r \in RowSet(img) |-> Resample(r)] @@ << >>)

pil_resize(img) == Transpose(ResampleRows(Transpose(ResampleRows(img))))

\* cos(pi * m / 64) for m = 0..32, in units of 2^-22
CosTable ==
    <<4194304, 4189252, 4174107, 4148907, 4113712, 4068606, 4013699, 3949122,
      3875032, 3791606, 3699046, 3597575, 3487436, 3368897, 3242241, 3107774,
      2965821, 2816722, 2660838, 2498544, 2330230, 2156303, 1977181, 1793296,
      1605091, 1413018, 1217542, 1019133, 818268, 615432, 411114, 205805, 0>>

\* cos(pi * m / 64) for any m, by the symmetries of the cosine
Cos(m) ==
    LET r == m % (4 * ImgSize)
        a == IF r > 2 * ImgSize THEN 4 * ImgSize - r ELSE r
    IN  IF a > ImgSize THEN -CosTable[2 * ImgSize - a + 1] ELSE CosTable[a + 1]

\* cos(pi * (k - 1) * (2 * i - 1) / 64), the basis of coefficient k at
\* position i, as the two digits of its size, each with its sign
DctBasis ==
    [k \in 1..HashSize |->
        [i \in 1..ImgSize |->
            LET c == Cos((k - 1) * (2 * i - 1))
                s == IF c < 0 THEN -1 ELSE 1
            IN  <<s * ((s * c) % LimbBase), s * ((s * c) \div LimbBase)>>] @@ << >>] @@ << >>

\* the first HashSize coefficients of the DCT-II of a row of numbers
\* (scipy.fftpack.dct, less its factor 2)
Dct(row) == [k \in 1..HashSize |-> Dot(row, DctBasis[k])] @@ << >>

\* the pixels of a row as numbers
PixelRow(row) == [i \in 1..Len(row) |-> <<row[i]>>] @@ << >>

PixelRows(img) == MapRows(img, [r \in RowSet(img) |-> PixelRow(r)] @@ << >>)

\* the transform of every row
DctRows(img) == MapRows(img, [r \in RowSet(img) |-> Dct(r)] @@ << >>)

\* dct(dct(pixels, axis=0), axis=1)[:hash_size, :hash_size]
dctlowfreq(pixels) == DctRows(Transpose(DctRows(Transpose(PixelRows(pixels)))))

\* the cells of an image
Cells(img) == (1..Len(img)) \X (1..Len(img[1]))

\* the k-th smallest coefficient of a block
KthSmallest(block, k) ==
    LET values == {block[p[1]][p[2]] : p \in Cells(block)}
        atLeastK == {v \in values :
                        Cardinality({p \in Cells(block) :
                            Compare(block[p[1]][p[2]], v, Len(v)) <= 0}) >= k}
    IN  CHOOSE v \in atLeastK : \A w \in atLeastK : Compare(v, w, Len(v)) <= 0

\* twice numpy.median of a block of an even number of coefficients: the sum
\* of the two middle ones
TwiceMedian(block) ==
    LET n == Cardinality(Cells(block))
    IN  Plus(KthSmallest(block, n \div 2), KthSmallest(block, n \div 2 + 1))

\* diff = dctlowfreq > med, an array of hash_size x hash_size booleans: the
\* set of its cells (u, v) that are True
Bits(block, med2) ==
    {p \in (0..(HashSize - 1)) \X (0..(HashSize - 1)) :
        Compare(Plus(block[p[1] + 1][p[2] + 1], block[p[1] + 1][p[2] + 1]),
                med2, Len(med2)) > 0}

\* imagehash.phash
phash(image) ==
    LET block == dctlowfreq(pil_resize(image)) IN [hash |-> Bits(block, TwiceMedian(block))]

\* The regions that the frames of the specifications below give rise to, and
\* their hashes, computed once.
HashedRegions ==
    Regions \cup CacheRegions
    \cup {Slice(frame, c) : frame \in Frames,
                            c \in BlendRects}
    \cup {Slice(StripFrame, StripRect)}
    \cup {[p \in (0..(h - 1)) \X (0..(w - 1)) |-> v] :
              h \in 1..(FrameH + 1), w \in 1..FrameW, v \in {0, Gray}}

HashTable == [roi \in HashedRegions |-> phash(resize(Rows(roi)))] @@ << >>

\* FrameCache.compute_hash: the perceptual hash of a region, an ImageHash of
\* hash_size x hash_size bits whatever the size of the region
compute_hash(roi) ==
    IF roi \in DOMAIN HashTable THEN HashTable[roi] ELSE phash(resize(Rows(roi)))
\* frame_hash - cached_hash: the Hamming distance of two hashes, the number
\* of the cells where they differ
HashDistance(h1, h2) == Cardinality((h1.hash \ h2.hash) \cup (h2.hash \ h1.hash))

\* the loop of FrameCache.get over the cached hashes from position i on;
\* best_match = None stands for min_distance = inf
RECURSIVE GetScan(_, _, _, _, _)
GetScan(cacheDict, frame_hash, i, min_distance, best_match) ==
    IF i > Len(cacheDict)
    THEN [min_distance |-> min_distance, best_match |-> best_match]
    ELSE LET cached_hash == cacheDict[i].k
             distance == HashDistance(frame_hash, cached_hash)
         IN  IF best_match = None \/ distance < min_distance
             THEN GetScan(cacheDict, frame_hash, i + 1, distance, cached_hash)
             ELSE GetScan(cacheDict, frame_hash, i + 1, min_distance, best_match)

\* a mutant of get: a hit needs a distance strictly below the threshold
get_StrictThreshold(self, roi) ==
    LET frame_hash == compute_hash(roi)
        scan == GetScan(self.cache, frame_hash, 1, 0, None)
    IN  IF scan.best_match # None /\ scan.min_distance < self.similarity_threshold
        THEN [self |-> [self EXCEPT !.access_count =
                           DictSet(@, scan.best_match, DictGet(@, scan.best_match) + 1)],
              ret |-> DictGet(self.cache, scan.best_match)]
        ELSE [self |-> self, ret |-> None]

\* a mutant of get: the first entry within the threshold is the match,
\* whether or not a later entry is closer
get_FirstWithinThreshold(self, roi) ==
    LET frame_hash == compute_hash(roi)
        within == {i \in 1..Len(self.cache) :
                      HashDistance(frame_hash, self.cache[i].k) <= self.similarity_threshold}
    IN  IF within # {}
        THEN LET first == CHOOSE i \in within : \A j \in within : i <= j
                 best_match == self.cache[first].k
             IN  [self |-> [self EXCEPT !.access_count =
                               DictSet(@, best_match, DictGet(@, best_match) + 1)],
                  ret |-> DictGet(self.cache, best_match)]
        ELSE [self |-> self, ret |-> None]

\* FrameCache.get
get(self, roi) ==
    LET frame_hash == compute_hash(roi)
        scan == GetScan(self.cache, frame_hash, 1, 0, None)
    IN  IF scan.best_match # None /\ scan.min_distance <= self.similarity_threshold
        THEN [self |-> [self EXCEPT !.access_count =
                           DictSet(@, scan.best_match, DictGet(@, scan.best_match) + 1)],
              ret |-> DictGet(self.cache, scan.best_match)]
        ELSE [self |-> self, ret |-> None]

\* min(self.access_count, key=self.access_count.get): the first key, in the
\* dict's order, whose count is the smallest
LeastUsed(access_count) ==
    LET i == CHOOSE i \in 1..Len(access_count) :
                 /\ \A j \in 1..Len(access_count) : access_count[i].v <= access_count[j].v
                 /\ \A j \in 1..(i - 1) : access_count[j].v > access_count[i].v
    IN  access_count[i].k

\* a mutant of put: the capacity test is off by one
put_LateEviction(self, roi, processed_result) ==
    LET frame_hash == compute_hash(roi)
        full == Len(self.cache) > self.cache_size
        least_used == IF full THEN LeastUsed(self.access_count) ELSE None
        cache1 == IF full THEN DictDel(self.cache, least_used) ELSE self.cache
        count1 == IF full THEN DictDel(self.access_count, least_used) ELSE self.access_count
    IN  [self |-> [self EXCEPT !.cache = DictSet(cache1, frame_hash, processed_result),
                               !.access_count = DictSet(count1, frame_hash, 1)],
         evicted |-> IF full THEN <<least_used>> ELSE << >>]

\* FrameCache.put; evicted is the tuple of the keys deleted by the call
put(self, roi, processed_result) ==
    LET frame_hash == compute_hash(roi)
        full == Len(self.cache) >= self.cache_size
        least_used == IF full THEN LeastUsed(self.access_count) ELSE None
        cache1 == IF full THEN DictDel(self.cache, least_used) ELSE self.cache
        count1 == IF full THEN DictDel(self.access_count, least_used) ELSE self.access_count
    IN  [self |-> [self EXCEPT !.cache = DictSet(cache1, frame_hash, processed_result),
                               !.access_count = DictSet(count1, frame_hash, 1)],
         evicted |-> IF full THEN <<least_used>> ELSE << >>]

(***************************************************************************)
(* FrameSkipDetector                                                       *)
(***************************************************************************)
\* FrameSkipDetector.__init__
FrameSkipDetectorInit(interval, threshold) ==
    [keyframe_interval |-> interval, scene_change_threshold |-> threshold,
     prev_roi |-> None]

\* the sum of the squared differences over the cells from the i-th on,
\* row after row
RECURSIVE SumSquares(_, _, _)
SumSquares(gray1, gray2, i) ==
    IF i >= Height(gray1) * Width(gray1) THEN 0
    ELSE LET p == <<i \div Width(gray1), i % Width(gray1)>>
         IN  (gray1[p] - gray2[p]) * (gray1[p] - gray2[p]) + SumSquares(gray1, gray2, i + 1)

\* FrameSkipDetector.calculate_frame_difference: float('inf') when a region
\* is missing, else the mean squared difference as the fraction num / den
calculate_frame_difference(roi1, roi2) ==
    IF roi1 = None \/ roi2 = None
    THEN [inf |-> TRUE, num |-> 0, den |-> 1]
    ELSE [inf |-> FALSE, num |-> SumSquares(roi1, roi2, 0),
          den |-> Height(roi1) * Width(roi1)]

\* diff > threshold
Exceeds(diff, threshold) == diff.inf \/ diff.num > threshold * diff.den

\* a mutant of should_process_frame: no frame is a keyframe
should_process_frame_NoKeyframe(self, frame_index, roi) ==
    IF self.prev_roi # None
    THEN Exceeds(calculate_frame_difference(roi, self.prev_roi), self.scene_change_threshold)
    ELSE FALSE

\* a mutant of should_process_frame: keyframes are one frame further apart
should_process_frame_LateKeyframe(self, frame_index, roi) ==
    LET is_keyframe == (frame_index % (self.keyframe_interval + 1) = 0) IN
    IF is_keyframe THEN TRUE
    ELSE IF self.prev_roi # None
         THEN Exceeds(calculate_frame_difference(roi, self.prev_roi),
                      self.scene_change_threshold)
         ELSE FALSE

\* FrameSkipDetector.should_process_frame
should_process_frame(self, frame_index, roi) ==
    LET is_keyframe == (frame_index % self.keyframe_interval = 0) IN
    IF is_keyframe THEN TRUE
    ELSE IF self.prev_roi # None
         THEN Exceeds(calculate_frame_difference(roi, self.prev_roi),
                      self.scene_change_threshold)
         ELSE FALSE

\* FrameSkipDetector.update_prev_roi
update_prev_roi(self, roi) ==
    IF roi # None THEN [self EXCEPT !.prev_roi = roi] ELSE self

(***************************************************************************)
(* The regeneration call                                                   *)
(***************************************************************************)
\* What the external model returns for a region: it raises, or it returns
\* pixels of the region's size as uint8, or as float64 (in [0, 1] or in the
\* 8-bit range).
ModelOutputs(roi) ==
    {[raises |-> TRUE, dtype |-> "uint8", px |-> None]}
    \cup {[raises |-> FALSE, dtype |-> "uint8", px |-> [i \in DOMAIN roi |-> v]] :
              v \in {0, Gray}}
    \cup {[raises |-> FALSE, dtype |-> "float64", px |-> [i \in DOMAIN roi |-> v]] :
              v \in {1, Gray}}

\* output.max()
MaxPixel(px) == MaxValue({px[p] : p \in DOMAIN px})

\* lama_inpaint, given what the model call returns
lama_inpaint(frame, out) ==
    IF out.raises THEN [raised |-> TRUE, ret |-> None]
    ELSE IF out.dtype = "float64" /\ MaxPixel(out.px) <= 1
         THEN [raised |-> FALSE, ret |-> [i \in DOMAIN out.px |-> out.px[i] * FloatScale]]
         ELSE [raised |-> FALSE, ret |-> out.px]

(***************************************************************************)
(* WatermarkProcessor                                                      *)
(***************************************************************************)
\* WatermarkProcessor.__init__
WatermarkProcessorInit ==
    [frame_cache |-> FrameCacheInit(ProcCacheSize, ProcSimilarityThreshold),
     skip_detector |-> FrameSkipDetectorInit(ProcKeyframeInterval, ProcSceneChangeThreshold),
     prev_processed_roi |-> None]

\* a mutant of Composite: with no processed region the frame is returned as
\* it came
Composite_RawOnMissing(self, must, hit, processed_roi, log) ==
    [self |-> self, raised |-> FALSE, must |-> must, hit |-> hit,
     used |-> processed_roi, log |-> Append(log, "composite")]

\* the end of process_frame: the blend of processed_roi into the frame, which
\* raises a TypeError when processed_roi is None
Composite(self, must, hit, processed_roi, log) ==
    IF processed_roi = None
    THEN [self |-> self, raised |-> TRUE, must |-> must, hit |-> hit,
          used |-> None, log |-> log]
    ELSE [self |-> self, raised |-> FALSE, must |-> must, hit |-> hit,
          used |-> processed_roi, log |-> Append(log, "composite")]

\* a mutant of Regenerated: the reference is updated before the call returns
Regenerated_ReferenceFirst(self, roi, r, log) ==
    IF r.raised
    THEN [self |-> [self EXCEPT !.skip_detector = update_prev_roi(@, roi)],
          raised |-> TRUE, must |-> TRUE, hit |-> FALSE, used |-> None, log |-> log]
    ELSE Composite([self EXCEPT !.frame_cache = put(@, roi, r.ret).self,
                                !.skip_detector = update_prev_roi(@, roi),
                                !.prev_processed_roi = r.ret],
                   TRUE, FALSE, r.ret,
                   log \o <<"put", "update_prev_roi", "prev_processed_roi">>)

\* the miss branch of process_frame from the return of lama_inpaint on:
\* the cache insert, the new reference and the new snapshot, unless the call
\* raised
Regenerated(self, roi, r, log) ==
    IF r.raised
    THEN [self |-> self, raised |-> TRUE, must |-> TRUE, hit |-> FALSE,
          used |-> None, log |-> log]
    ELSE Composite([self EXCEPT !.frame_cache = put(@, roi, r.ret).self,
                                !.skip_detector = update_prev_roi(@, roi),
                                !.prev_processed_roi = r.ret],
                   TRUE, FALSE, r.ret,
                   log \o <<"put", "update_prev_roi", "prev_processed_roi">>)

\* a mutant of process_frame: the reference follows every frame
process_frame_UpdateEveryFrame(self, roi, frame_index) ==
    LET upd == [self EXCEPT !.skip_detector = update_prev_roi(@, roi)] IN
    IF should_process_frame(self.skip_detector, frame_index, roi)
    THEN IF get(self.frame_cache, roi).ret = None
         THEN {Regenerated(upd, roi, lama_inpaint(roi, out),
                           <<"should_process_frame", "get", "lama_inpaint">>) :
                  out \in ModelOutputs(roi)}
         ELSE {Composite([upd EXCEPT !.frame_cache = get(@, roi).self,
                                     !.prev_processed_roi = get(self.frame_cache, roi).ret],
                         TRUE, TRUE, get(self.frame_cache, roi).ret,
                         <<"should_process_frame", "get", "update_prev_roi",
                           "prev_processed_roi">>)}
    ELSE {Composite(upd, FALSE, FALSE, self.prev_processed_roi,
                    <<"should_process_frame", "update_prev_roi">>)}

\* a mutant of process_frame: the region is regenerated on a cache hit too
process_frame_AlwaysRegenerate(self, roi, frame_index) ==
    IF should_process_frame(self.skip_detector, frame_index, roi)
    THEN {Regenerated([self EXCEPT !.frame_cache = get(@, roi).self], roi,
                      lama_inpaint(roi, out),
                      <<"should_process_frame", "get", "lama_inpaint">>) :
             out \in ModelOutputs(roi)}
    ELSE {Composite(self, FALSE, FALSE, self.prev_processed_roi,
                    <<"should_process_frame">>)}

\* WatermarkProcessor.process_frame on a frame whose region is roi: the set
\* of its outcomes, one for each thing the model call can return when the
\* call is made.  In an outcome, self is the processor after the call, raised
\* tells whether it raised, log lists the steps taken, in order, must and hit
\* are process_this_frame and whether the cache lookup hit, and used is the
\* processed_roi blended into the frame.
process_frame(self, roi, frame_index) ==
    IF should_process_frame(self.skip_detector, frame_index, roi)
    THEN IF get(self.frame_cache, roi).ret = None
         THEN {Regenerated([self EXCEPT !.frame_cache = get(@, roi).self], roi,
                           lama_inpaint(roi, out),
                           <<"should_process_frame", "get", "lama_inpaint">>) :
                  out \in ModelOutputs(roi)}
         ELSE {Composite([self EXCEPT !.frame_cache = get(@, roi).self,
                                      !.skip_detector = update_prev_roi(@, roi),
                                      !.prev_processed_roi = get(self.frame_cache, roi).ret],
                         TRUE, TRUE, get(self.frame_cache, roi).ret,
                         <<"should_process_frame", "get", "update_prev_roi",
                           "prev_processed_roi">>)}
    ELSE {Composite(self, FALSE, FALSE, self.prev_processed_roi,
                    <<"should_process_frame">>)}

(***************************************************************************)
(* WatermarkDetector                                                       *)
(***************************************************************************)
\* the pixels of frame[roi.y : roi.y + roi.h, roi.x : roi.x + roi.w]
RoiCoords(roi) ==
    {p \in Coords : /\ roi.y <= p[1] /\ p[1] < roi.y + roi.h
                    /\ roi.x <= p[2] /\ p[2] < roi.x + roi.w}

\* the side of a pixel of a frame of FrameH rows on the display of
\* select_roi
DisplayCell == DisplayHeight \div FrameH

\* What cv2.selectROI returns: (0, 0, 0, 0) for a cancelled selection, or a
\* rectangle (x, y, w, h) of the display, whose sides need not fall between
\* the pixels of the frame.
Selections ==
    {[x |-> 0, y |-> 0, w |-> 0, h |-> 0]}
    \cup {r \in [x : {DisplayCell * c + o : c \in 0..(FrameW - 1),
                                            o \in {0, DisplayCell \div 2}},
                 y : {DisplayCell * c : c \in 0..(FrameH - 1)},
                 w : {DisplayCell \div 2, DisplayCell,
                      DisplayCell + DisplayCell \div 2, 2 * DisplayCell},
                 h : {DisplayCell}] :
              r.x + r.w <= FrameW * DisplayCell /\ r.y + r.h <= DisplayHeight}

\* WatermarkDetector.__init__
WatermarkDetectorInit(num_sample_frames, min_frame_count, dilation_kernel_size) ==
    [num_sample_frames |-> num_sample_frames, min_frame_count |-> min_frame_count,
     dilation_kernel_size |-> dilation_kernel_size, roi |-> None]

\* the number of binary digits of LimbBase
LimbBits == Log2(LimbBase)

\* the number of digits that hold the mantissa of a float64 times a frame
\* height and a coordinate
FloatDigits == (MantissaBits + 2 * LimbBits) \div LimbBits + 1

\* the digits of v * 2^k, in normal form
Shifted(v, k) ==
    Carry([j \in 1..FloatDigits |->
              IF j = k \div LimbBits + 1 THEN v * 2 ^ (k % LimbBits) ELSE 0] @@ << >>,
          1, 0)

\* int(v / scale_factor) for scale_factor = display_height / frame_h, the two
\* divisions each rounded to the nearest float64.  The mantissa of
\* scale_factor is the quotient of DisplayHeight * 2^k by frame_h, rounded:
\* r is the remainder of that division.  Only a scale_factor rounded up and a
\* v whose exact quotient q is a whole number give a float below q, and this
\* one is truncated to q - 1 when it is nearer to the float before q than to
\* q
FloatQuotient(v, frame_h) ==
    LET k == MantissaBits
                 - (IF frame_h <= DisplayHeight
                    THEN Log2(DisplayHeight \div frame_h)
                    ELSE - ShiftsTo(DisplayHeight, frame_h))
        r == ((DisplayHeight % frame_h) * PowMod(k, frame_h)) % frame_h
        q == (v * frame_h) \div DisplayHeight
        half == IF q = 2 ^ Log2(q) THEN MantissaBits + 2 ELSE MantissaBits + 1
    IN  IF \/ (v * frame_h) % DisplayHeight # 0
           \/ q = 0
           \/ DisplayHeight % frame_h = 0
           \/ 2 * r <= frame_h
        THEN q
        ELSE IF Compare(Times(q, Shifted(frame_h - r, half - Log2(q))),
                        Plus(Shifted(DisplayHeight, k), Shifted(frame_h - r, 0)),
                        FloatDigits + 2) > 0
             THEN q - 1
             ELSE q

\* WatermarkDetector.select_roi on a frame of frame_h rows, when cv2.selectROI
\* returns r
select_roi(self, frame_h, r) ==
    [self EXCEPT !.roi = [x |-> FloatQuotient(r.x, frame_h),
                          y |-> FloatQuotient(r.y, frame_h),
                          w |-> FloatQuotient(r.w, frame_h),
                          h |-> FloatQuotient(r.h, frame_h)]]

\* WatermarkDetector.detect_watermark_in_frame on a frame whose region of
\* interest cv2.threshold binarizes to binary_frame, the set of its pixels
\* set to 255: a mask of the frame's size, zero outside the region.  It
\* raises a ValueError when no region is selected, and cv2.cvtColor raises
\* on a region with no pixel.
detect_watermark_in_frame(self, binary_frame) ==
    IF self.roi = None THEN [raised |-> TRUE, ret |-> None]
    ELSE IF RoiCoords(self.roi) = {} THEN [raised |-> TRUE, ret |-> None]
    ELSE [raised |-> FALSE,
          ret |-> [p \in Coords |-> IF p \in RoiCoords(self.roi) /\ p \in binary_frame
                                    THEN Foreground ELSE 0]]

\* sum((mask == 255).astype(np.uint8) for mask in masks) at pixel p, over the
\* masks from position i on
RECURSIVE VoteCount(_, _, _)
VoteCount(masks, p, i) ==
    IF i > Len(masks) THEN 0
    ELSE ((IF masks[i][p] = Foreground THEN 1 ELSE 0) + VoteCount(masks, p, i + 1))
             % Uint8Range

\* a mutant of VotedMask: a pixel needs exactly min_frame_count votes
VotedMask_ExactCount(masks, min_frame_count) ==
    [p \in Coords |-> IF VoteCount(masks, p, 1) = min_frame_count THEN Foreground ELSE 0]

\* np.where(final_mask >= self.min_frame_count, 255, 0)
VotedMask(masks, min_frame_count) ==
    [p \in Coords |-> IF VoteCount(masks, p, 1) >= min_frame_count THEN Foreground ELSE 0]

\* one iteration of cv2.dilate with a size x size kernel of ones anchored at
\* its centre: the maximum over the window from anchor cells before the pixel
\* to size - 1 - anchor cells after it, cells outside the frame left out
Dilate(mask, size) ==
    LET anchor == size \div 2 IN
    [p \in Coords |->
        MaxValue({mask[q] : q \in
            (Max2(0, p[1] - anchor)..Min2(FrameH - 1, p[1] + size - 1 - anchor))
            \X (Max2(0, p[2] - anchor)..Min2(FrameW - 1, p[2] + size - 1 - anchor))})]

\* cv2.dilate(mask, kernel, iterations=...); a mask that one dilation leaves
\* as it is is left as it is by the dilations that follow
RECURSIVE DilateTimes(_, _, _)
DilateTimes(mask, size, iterations) ==
    IF iterations = 0 \/ mask = Dilate(mask, size) THEN mask
    ELSE DilateTimes(Dilate(mask, size), size, iterations - 1)

\* the loop of generate_mask over the sampled frames from position i on:
\* the masks appended to masks, unless a frame raises
RECURSIVE DetectAll(_, _, _, _)
DetectAll(self, binary_frames, i, masks) ==
    IF i > Len(binary_frames) THEN [raised |-> FALSE, ret |-> masks]
    ELSE LET mask == detect_watermark_in_frame(self, binary_frames[i]) IN
         IF mask.raised THEN [raised |-> TRUE, ret |-> None]
         ELSE DetectAll(self, binary_frames, i + 1, Append(masks, mask.ret))

\* the first lines of generate_mask on a video of frames of FrameH rows: the
\* region is selected if none is, cv2.selectROI returning selection
Selected(self, selection) ==
    IF self.roi = None THEN select_roi(self, FrameH, selection) ELSE self

\* WatermarkDetector.generate_mask on a video whose sampled frames binarize
\* to binary_frames inside the region of interest.  self is the detector
\* after the call.
generate_mask(self, selection, binary_frames) ==
    LET selected == Selected(self, selection)
        masks == DetectAll(selected, binary_frames, 1, << >>)
    IN  IF masks.raised
        THEN [self |-> selected, raised |-> TRUE, ret |-> None]
        ELSE [self |-> selected, raised |-> FALSE,
              ret |-> DilateTimes(VotedMask(masks.ret, selected.min_frame_count),
                                  selected.dilation_kernel_size, DilateIterations)]

\* np.where(watermark_mask > 0): the coordinates of the foreground pixels
ForegroundPixels(watermark_mask) == {p \in DOMAIN watermark_mask : watermark_mask[p] > 0}

\* the bounds computed from the foreground pixels by get_roi_coordinates and
\* by process_video: the smallest index less margin, not below 0, and the
\* largest index plus margin, not above the height or the width given
BoundingBox(fg, height, width, margin) ==
    [y_min |-> Max2(0, MinOf({p[1] : p \in fg}) - margin),
     y_max |-> Min2(height, MaxValue({p[1] : p \in fg}) + margin),
     x_min |-> Max2(0, MinOf({p[2] : p \in fg}) - margin),
     x_max |-> Min2(width, MaxValue({p[2] : p \in fg}) + margin)]

\* WatermarkDetector.get_roi_coordinates: raises a ValueError on a mask with
\* no foreground pixel
get_roi_coordinates(watermark_mask, margin) ==
    LET fg == ForegroundPixels(watermark_mask) IN
    IF fg = {}
    THEN [raised |-> TRUE, ret |-> None]
    ELSE [raised |-> FALSE,
          ret |-> BoundingBox(fg, Height(watermark_mask), Width(watermark_mask), margin)]

\* WatermarkDetector.extract_roi_mask
extract_roi_mask(watermark_mask, roi_coords) == Slice(watermark_mask, roi_coords)

(***************************************************************************)
(* The blend of process_frame                                              *)
(***************************************************************************)
\* WatermarkProcessor.extract_roi
extract_roi(frame, c) == Slice(frame, c)

\* the index BORDER_REFLECT_101 gives for position i of a row of n cells
RECURSIVE Reflect101(_, _)
Reflect101(i, n) ==
    IF n = 1 THEN 0
    ELSE IF i < 0 THEN Reflect101(-i, n)
    ELSE IF i >= n THEN Reflect101(2 * (n - 1) - i, n)
    ELSE i

\* cv2.getGaussianKernel(21, 3.5), sigma being 0.3 * ((21 - 1) * 0.5 - 1) +
\* 0.8: the weights at the offsets 0..10 from the centre, proportional to
\* exp(-d^2 / 24.5), in units of 2^-33; the 21 weights add up to 2^33
KernelTable ==
    <<981673680, 942412074, 833800067, 679877077, 510912186, 353842107,
      225850030, 132855086, 72025056, 35986235, 16570538>>

KernelRadius == KernelSize \div 2

\* the number of digits of a weight
WeightDigits == 3

\* digit k of the weight that cell q of a row of n cells has in the blur at
\* cell p: the sum of the weights of the offsets from d on that
\* BORDER_REFLECT_101 takes to q
RECURSIVE FoldedDigit(_, _, _, _, _)
FoldedDigit(p, q, n, k, d) ==
    IF d > KernelRadius THEN 0
    ELSE (IF Reflect101(p + d, n) = q
          THEN Digits(KernelTable[(IF d < 0 THEN -d ELSE d) + 1], WeightDigits)[k]
          ELSE 0)
         + FoldedDigit(p, q, n, k, d + 1)

KernelWeight(p, q, n) ==
    Carry([k \in 1..WeightDigits |-> FoldedDigit(p, q, n, k, -KernelRadius)] @@ << >>, 1, 0)

\* the weights for the rows of up to MaxSide cells, computed once
MaxSide == Max2(StripW, Max2(FrameH + 1, FrameW))

KernelWeights ==
    [n \in 1..MaxSide |->
        [p \in 0..(n - 1) |->
            [q \in 0..(n - 1) |-> KernelWeight(p, q, n)] @@ << >>] @@ << >>] @@ << >>

Folded(p, q, n) ==
    IF n \in DOMAIN KernelWeights THEN KernelWeights[n][p][q] ELSE KernelWeight(p, q, n)

\* the cells of a two-dimensional array, row after row
CellAt(grid, i) == <<(i - 1) \div Width(grid), (i - 1) % Width(grid)>>

\* the number of digits of the fraction of Feather
FeatherDigits == 2 * WeightDigits

\* the positions, row after row, of the cells of a mask that are not 0
Marked(mask) ==
    SelectSeq([i \in 1..(Height(mask) * Width(mask)) |-> i],
              LAMBDA i : mask[CellAt(mask, i)] # 0)

\* cv2.GaussianBlur(roi_mask.astype(np.float32), (21, 21), 0) at cell p, in
\* units of 2^-66: the sum over the cells of the mask of the cell times its
\* weight down the rows times its weight along the row (the cells that are
\* 0 add nothing).  Blur / 255.0 is blend_mask.
Blur(mask, p) ==
    LET at == Marked(mask) IN
    IF at = << >> THEN [k \in 1..(FeatherDigits + 3) |-> 0]
    ELSE Dot([j \in 1..Len(at) |->
                 Times(mask[CellAt(mask, at[j])],
                       Folded(p[1], CellAt(mask, at[j])[1], Height(mask)))] @@ << >>,
             [j \in 1..Len(at) |->
                 Folded(p[2], CellAt(mask, at[j])[2], Width(mask))] @@ << >>)

\* the blurs of the masks of the specifications below, computed once
BlurTable ==
    [mask \in UNION {MasksOf(c) : c \in BlendRects} \cup {StripMask} |->
        [p \in DOMAIN mask |-> Blur(mask, p)] @@ << >>] @@ << >>

Feather(mask, p) ==
    IF mask \in DOMAIN BlurTable THEN BlurTable[mask][p] ELSE Blur(mask, p)

\* The uint8 values that blend_mask * processed + (1 - blend_mask) * original
\* can be written as into the frame.  The blur, the division by 255.0 and
\* the blend are computed in float32, and the float is truncated: the sums
\* of the two passes of the blur (21 products each, of relative error 2^-24)
\* and the three operations of the blend leave the float within 2^-10 of the
\* exact value original + blend_mask * (processed - original), on which
\* side depending on the order in which the build adds.  Where the blur is
\* 0 every product is 0 and the value written is original.
Mix(feather, processed, original) ==
    IF feather = [k \in DOMAIN feather |-> 0] THEN {original}
    ELSE LET unit == Foreground * LimbBase
             exact == original * unit
                      + Floor(Times(processed - original, feather), FeatherDigits - 1, 1)
         IN  {Max2(0, (exact - unit \div 2 ^ 10) \div unit),
              Min2(Uint8Range - 1, (exact + unit \div 2 ^ 10) \div unit)}

\* broadcasting of a mask dimension to a region dimension
Broadcasts(maskDim, roiDim) == maskDim = roiDim \/ maskDim = 1

\* the blend raises when processed_roi is None (TypeError) and when the mask
\* does not broadcast to the region (ValueError)
BlendRaises(mask, roi, processed_roi) ==
    \/ processed_roi = None
    \/ ~Broadcasts(Height(mask), Height(roi))
    \/ ~Broadcasts(Width(mask), Width(roi))

\* the tuples that take one value from each of the sets of options from
\* position i on
RECURSIVE Written(_, _)
Written(options, i) ==
    IF i > Len(options) THEN {<< >>}
    ELSE {<<v>> \o rest : v \in options[i], rest \in Written(options, i + 1)}

\* the arrays of the shape of frame whose cells, row after row, are the
\* values of a tuple of Written
Arrays(frame, options) ==
    {[p \in DOMAIN frame |-> cells[p[1] * Width(frame) + p[2] + 1]] :
        cells \in Written(options, 1)}

\* a mutant of Blend: the processed region replaces the whole region
Blend_HardPaste(frame, c, mask, roi, processed_roi) ==
    Arrays(frame,
           [i \in 1..(Height(frame) * Width(frame)) |->
               LET p == CellAt(frame, i)
                   q == <<p[1] - c.y_min, p[2] - c.x_min>>
               IN  IF q \in DOMAIN roi THEN {processed_roi[q]} ELSE {frame[p]}] @@ << >>)

\* the end of process_frame when it does not raise: the frames that can be
\* returned, the feathered blend of processed_roi and roi written into a
\* copy of the frame
Blend(frame, c, mask, roi, processed_roi) ==
    Arrays(frame,
           [i \in 1..(Height(frame) * Width(frame)) |->
               LET p == CellAt(frame, i)
                   q == <<p[1] - c.y_min, p[2] - c.x_min>>
               IN  IF q \in DOMAIN roi
                   THEN Mix(Feather(mask, <<IF Height(mask) = 1 THEN 0 ELSE q[1],
                                            IF Width(mask) = 1 THEN 0 ELSE q[2]>>),
                            processed_roi[q], roi[q])
                   ELSE {frame[p]}] @@ << >>)

\* an outcome r of process_frame up to the blend, after the blend: an
\* exception of the blend leaves the frame without composite
Blended(r, mask, roi) ==
    IF r.raised THEN r
    ELSE IF BlendRaises(mask, roi, r.used)
         THEN [self |-> r.self, raised |-> TRUE, must |-> r.must, hit |-> r.hit,
               used |-> None, log |-> SubSeq(r.log, 1, Len(r.log) - 1)]
         ELSE r

\* the outcomes of process_frame with the frame returned; frame_bgr is the
\* frame given as the call leaves it
WithResult(r, frame, c, mask, roi) ==
    LET b == Blended(r, mask, roi) IN
    IF b.raised
    THEN {[self |-> b.self, raised |-> TRUE, must |-> b.must, hit |-> b.hit,
           used |-> b.used, log |-> b.log, result |-> None, frame_bgr |-> frame]}
    ELSE {[self |-> b.self, raised |-> FALSE, must |-> b.must, hit |-> b.hit,
           used |-> b.used, log |-> b.log, result |-> result, frame_bgr |-> frame] :
             result \in Blend(frame, c, mask, roi, b.used)}

\* WatermarkProcessor.process_frame on a whole frame, for a processor built
\* with roi_coords c and roi_mask mask: the outcomes of process_frame on the
\* region extracted, each with a frame that can be returned
process_frame_bgr(self, c, mask, frame, frame_index) ==
    UNION {WithResult(r, frame, c, mask, extract_roi(frame, c)) :
              r \in process_frame(self, extract_roi(frame, c), frame_index)}

\* the same outcomes without the frame returned: what the call leaves in the
\* processor, and whether it raised
process_frame_effect(self, c, mask, frame, frame_index) ==
    {Blended(r, mask, extract_roi(frame, c)) :
        r \in process_frame(self, extract_roi(frame, c), frame_index)}

(***************************************************************************)
(* process_video and the batch loop of __main__                            *)
(***************************************************************************)
\* a mutant of NeedsMask: the mask is generated for every video
NeedsMask_Always(mask) == TRUE

\* if watermark_mask is None, in the batch loop
NeedsMask(mask) == ~mask.done

\* the start of process_video on a video of height video.h and width
\* video.w: on a mask with no foreground pixel it prints a message and
\* returns video_info; else the bounds of the region, clamped to the video's
\* frame, and the mask cropped to them
process_video(video, mask) ==
    LET fg == ForegroundPixels(mask) IN
    IF fg = {}
    THEN [empty |-> TRUE, raised |-> FALSE, roi_coords |-> None, roi_mask |-> None]
    ELSE [empty |-> FALSE, raised |-> FALSE,
          roi_coords |-> BoundingBox(fg, video.h, video.w, ProcMargin),
          roi_mask |-> Slice(mask, BoundingBox(fg, video.h, video.w, ProcMargin))]

(***************************************************************************)
(* State                                                                   *)
(***************************************************************************)
VARIABLES
    frame_cache,         \* a FrameCache (the processor's, or a stand-alone one)
    skip_detector,       \* a FrameSkipDetector (the processor's, or a stand-alone one)
    prev_processed_roi,  \* WatermarkProcessor.prev_processed_roi
    frame_count,         \* process_video's frame_count
    run,                 \* "running", or "aborted" once a frame has raised
    last,                \* the last call made: its arguments and what it returned
    last_must,           \* region, processed region and index of the last
                         \* must-process frame that process_frame completed
    watermark_detector,  \* a WatermarkDetector
    sampled,             \* the binarized regions of the frames generate_mask samples
    watermark_mask,      \* what generate_mask returned, once it has
    videos,              \* the videos of the batch: height and width of their frames
    video_index,         \* the number of videos the batch loop has taken
    pc,                  \* where the batch is: "loop", "frames", "done" or "crashed"
    reported,            \* the videos printed as successfully processed
    roi_coords,          \* WatermarkProcessor.roi_coords
    roi_mask,            \* WatermarkProcessor.roi_mask
    mask_calls,          \* the number of calls of generate_mask made by the batch
    frame_bgr,           \* the frame buffer given to process_frame, after the call
    put_order            \* the signatures a stand-alone FrameCache stores, in the
                         \* order of the calls of put that stored their entries

vars == <<frame_cache, skip_detector, prev_processed_roi, frame_count, run, last, last_must,
          watermark_detector, sampled, watermark_mask,
          videos, video_index, pc, reported, roi_coords, roi_mask, mask_calls, frame_bgr,
          put_order>>

detectorVars == <<watermark_detector, sampled, watermark_mask>>

batchVars == <<videos, video_index, pc, reported, roi_coords, roi_mask, mask_calls, frame_bgr>>

Buffers == {Uniform(0), Uniform(Gray)}

SceneThresholds == {0, ProcSceneChangeThreshold}

InitRest ==
    /\ prev_processed_roi = None
    /\ frame_count = 0
    /\ run = "running"
    /\ last = [op |-> "init"]
    /\ last_must = [roi |-> None, processed |-> None, frame_index |-> -1]
    /\ put_order = << >>

BatchRest ==
    /\ videos = << >>
    /\ video_index = 0
    /\ pc = "frames"
    /\ reported = << >>
    /\ roi_coords = None
    /\ roi_mask = None
    /\ mask_calls = 0
    /\ frame_bgr = None

DetectorRest ==
    /\ watermark_detector = WatermarkDetectorInit(NumSamples, 1, 1)
    /\ sampled = << >>
    /\ watermark_mask = [done |-> FALSE]

(***************************************************************************)
(* A stand-alone FrameCache under any sequence of put and get.             *)
(***************************************************************************)
CacheInit ==
    /\ frame_cache \in {FrameCacheInit(c, t) : c \in 1..MaxCap, t \in {0, MaxThr}}
    /\ skip_detector = FrameSkipDetectorInit(ProcKeyframeInterval, ProcSceneChangeThreshold)
    /\ InitRest
    /\ DetectorRest
    /\ BatchRest

\* the signatures in the order of the puts that stored them, after a put of
\* frame_hash that deleted the keys of evicted
PutOrder(order, frame_hash, evicted) ==
    Append(SelectSeq(order, LAMBDA key : key # frame_hash
                                          /\ \A i \in 1..Len(evicted) : evicted[i] # key),
           frame_hash)

CachePut(roi, processed_result) ==
    \E p \in {put(frame_cache, roi, processed_result)} :
        /\ frame_cache' = p.self
        /\ put_order' = PutOrder(put_order, compute_hash(roi), p.evicted)
        /\ last' = [op |-> "put", roi |-> roi, arg |-> processed_result,
                    size_before |-> Len(frame_cache.cache), evicted |-> p.evicted]
        /\ UNCHANGED <<skip_detector, prev_processed_roi, frame_count, run, last_must, detectorVars, batchVars>>

CacheGet(roi) ==
    \E g \in {get(frame_cache, roi)} :
        \E fresh \in {last.op = "put" /\ last.size_before = 0 /\ last.roi = roi} :
            /\ \A i \in 1..Len(g.self.access_count) : g.self.access_count[i].v <= MaxCount
            /\ frame_cache' = g.self
            /\ last' = [op |-> "get", roi |-> roi, ret |-> g.ret, fresh |-> fresh,
                        fresh_arg |-> IF fresh THEN last.arg ELSE None]
            /\ UNCHANGED <<put_order, skip_detector, prev_processed_roi, frame_count, run, last_must, detectorVars, batchVars>>

CacheNext ==
    \/ \E roi \in CacheRegions, buf \in Buffers : CachePut(roi, buf)
    \/ \E roi \in CacheRegions : CacheGet(roi)

SpecCache == CacheInit /\ [][CacheNext]_vars

(***************************************************************************)
(* A stand-alone FrameSkipDetector.                                        *)
(***************************************************************************)
SkipInit ==
    /\ skip_detector \in {FrameSkipDetectorInit(k, s) : k \in 1..MaxK, s \in SceneThresholds}
    /\ frame_cache = FrameCacheInit(ProcCacheSize, ProcSimilarityThreshold)
    /\ InitRest
    /\ DetectorRest
    /\ BatchRest

ShouldProcessFrame(frame_index, roi) ==
    /\ last' = [op |-> "should_process_frame", frame_index |-> frame_index, roi |-> roi,
                ret |-> should_process_frame(skip_detector, frame_index, roi)]
    /\ UNCHANGED <<put_order, frame_cache, skip_detector, prev_processed_roi, frame_count, run, last_must, detectorVars, batchVars>>

UpdatePrevRoi(roi) ==
    /\ skip_detector' = update_prev_roi(skip_detector, roi)
    /\ last' = [op |-> "update_prev_roi", roi |-> roi]
    /\ UNCHANGED <<put_order, frame_cache, prev_processed_roi, frame_count, run, last_must, detectorVars, batchVars>>

SkipNext ==
    \/ \E frame_index \in 0..MaxIndex, roi \in Regions : ShouldProcessFrame(frame_index, roi)
    \/ \E roi \in Regions \cup {None} : UpdatePrevRoi(roi)

SpecSkip == SkipInit /\ [][SkipNext]_vars

(***************************************************************************)
(* One video: process_video's frame loop on one WatermarkProcessor.        *)
(***************************************************************************)
Init ==
    /\ frame_cache = WatermarkProcessorInit.frame_cache
    /\ skip_detector = WatermarkProcessorInit.skip_detector
    /\ InitRest
    /\ DetectorRest
    /\ BatchRest

\* process_video.process_frame_wrapper on the next frame of the video
ProcessFrameWrapper(roi) ==
    /\ run = "running"
    /\ frame_count < MaxFrames
    /\ \E r \in process_frame([frame_cache |-> frame_cache, skip_detector |-> skip_detector,
                                prev_processed_roi |-> prev_processed_roi],
                               roi, frame_count) :
           /\ frame_cache' = r.self.frame_cache
           /\ skip_detector' = r.self.skip_detector
           /\ prev_processed_roi' = r.self.prev_processed_roi
           /\ frame_count' = IF r.raised THEN frame_count ELSE frame_count + 1
           /\ run' = IF r.raised THEN "aborted" ELSE "running"
           /\ last' = [op |-> "process_frame", frame_index |-> frame_count, roi |-> roi,
                       must |-> r.must, hit |-> r.hit, used |-> r.used,
                       raised |-> r.raised, log |-> r.log]
           /\ last_must' = IF r.must /\ ~r.raised
                           THEN [roi |-> roi, processed |-> r.used,
                                 frame_index |-> frame_count]
                           ELSE last_must
           /\ UNCHANGED <<put_order, detectorVars, batchVars>>

Next == \E roi \in Regions : ProcessFrameWrapper(roi)

Spec == Init /\ [][Next]_vars

(***************************************************************************)
(* A stand-alone WatermarkProcessor: process_frame called with any frame   *)
(* index, until a call raises.                                             *)
(***************************************************************************)
FrameIndices == {0, 1, ProcKeyframeInterval, ProcKeyframeInterval + 1}

ProcessFrameAt(roi, frame_index) ==
    /\ run = "running"
    /\ frame_count < MaxCalls
    /\ \E r \in process_frame([frame_cache |-> frame_cache, skip_detector |-> skip_detector,
                                prev_processed_roi |-> prev_processed_roi],
                               roi, frame_index) :
           /\ frame_cache' = r.self.frame_cache
           /\ skip_detector' = r.self.skip_detector
           /\ prev_processed_roi' = r.self.prev_processed_roi
           /\ frame_count' = IF r.raised THEN frame_count ELSE frame_count + 1
           /\ run' = IF r.raised THEN "aborted" ELSE "running"
           /\ last' = [op |-> "process_frame", frame_index |-> frame_index, roi |-> roi,
                       must |-> r.must, hit |-> r.hit, used |-> r.used,
                       raised |-> r.raised, log |-> r.log]
           /\ last_must' = IF r.must /\ ~r.raised
                           THEN [roi |-> roi, processed |-> r.used,
                                 frame_index |-> frame_index]
                           ELSE last_must
           /\ UNCHANGED <<put_order, detectorVars, batchVars>>

ProcessorNext == \E roi \in Regions, frame_index \in FrameIndices : ProcessFrameAt(roi, frame_index)

SpecProcessor == Init /\ [][ProcessorNext]_vars

(***************************************************************************)
(* Watermark localization: generate_mask on a new WatermarkDetector, for   *)
(* any selection of the region and any sampled frames.                     *)
(***************************************************************************)
MaskInit ==
    /\ watermark_detector \in
           {WatermarkDetectorInit(NumSamples, m, size) :
               m \in 1..(NumSamples + 1), size \in 1..MaxKernel}
    /\ sampled = << >>
    /\ watermark_mask = [done |-> FALSE]
    /\ frame_cache = FrameCacheInit(ProcCacheSize, ProcSimilarityThreshold)
    /\ skip_detector = FrameSkipDetectorInit(ProcKeyframeInterval, ProcSceneChangeThreshold)
    /\ InitRest
    /\ BatchRest

\* the binarized regions of the sampled frames, for the region selected
BinaryFrames(self) == [1..self.num_sample_frames -> SUBSET RoiCoords(self.roi)]

GenerateMask(selection) ==
    /\ ~watermark_mask.done
    /\ \E binary_frames \in BinaryFrames(Selected(watermark_detector, selection)) :
         \E r \in {generate_mask(watermark_detector, selection, binary_frames)} :
           /\ watermark_detector' = r.self
           /\ sampled' = binary_frames
           /\ watermark_mask' = [done |-> TRUE, raised |-> r.raised, ret |-> r.ret]
           /\ last' = [op |-> "generate_mask", selection |-> selection]
    /\ UNCHANGED <<put_order, frame_cache, skip_detector, prev_processed_roi, frame_count, run,
                   last_must, batchVars>>

MaskNext == \E selection \in Selections : GenerateMask(selection)

SpecMask == MaskInit /\ [][MaskNext]_vars

(***************************************************************************)
(* The bounding-box step: get_roi_coordinates on any binary mask.          *)
(***************************************************************************)
BoxInit ==
    /\ watermark_mask \in {[done |-> TRUE, raised |-> FALSE, ret |-> mask] :
                               mask \in [Coords -> {0, Foreground}]}
    /\ watermark_detector = WatermarkDetectorInit(NumSamples, 1, 1)
    /\ sampled = << >>
    /\ frame_cache = FrameCacheInit(ProcCacheSize, ProcSimilarityThreshold)
    /\ skip_detector = FrameSkipDetectorInit(ProcKeyframeInterval, ProcSceneChangeThreshold)
    /\ InitRest
    /\ BatchRest

GetRoiCoordinates(margin) ==
    /\ \E r \in {get_roi_coordinates(watermark_mask.ret, margin)} :
           last' = [op |-> "get_roi_coordinates", margin |-> margin,
                    raised |-> r.raised, ret |-> r.ret]
    /\ UNCHANGED <<put_order, frame_cache, skip_detector, prev_processed_roi, frame_count, run,
                   last_must, detectorVars, batchVars>>

BoxNext == \E margin \in 0..MaxMargin : GetRoiCoordinates(margin)

SpecBox == BoxInit /\ [][BoxNext]_vars

(***************************************************************************)
(* A WatermarkProcessor built on any rectangle of the frame and any mask   *)
(* of the rectangle's size, given whole frames.                            *)
(***************************************************************************)
\* the video is one of frames of FrameH x FrameW, the region any rectangle
\* of them, or one of strips, the region the strip but its first pixel
BlendInit ==
    /\ \/ /\ videos = <<[h |-> FrameH, w |-> FrameW]>>
          /\ roi_coords \in BlendRects
          /\ roi_mask \in MasksOf(roi_coords)
       \/ /\ videos = <<[h |-> Height(StripFrame), w |-> Width(StripFrame)]>>
          /\ roi_coords = StripRect
          /\ roi_mask = StripMask
    /\ frame_cache = WatermarkProcessorInit.frame_cache
    /\ skip_detector = WatermarkProcessorInit.skip_detector
    /\ InitRest
    /\ DetectorRest
    /\ video_index = 0
    /\ pc = "frames"
    /\ reported = << >>
    /\ mask_calls = 0
    /\ frame_bgr = None

\* process_frame on the next whole frame
ProcessFrame(frame) ==
    /\ run = "running"
    /\ frame_count < BlendFrames
    /\ Height(frame) = videos[1].h
    /\ Width(frame) = videos[1].w
    /\ \E r \in process_frame_bgr([frame_cache |-> frame_cache,
                                    skip_detector |-> skip_detector,
                                    prev_processed_roi |-> prev_processed_roi],
                                   roi_coords, roi_mask, frame, frame_count) :
           /\ frame_cache' = r.self.frame_cache
           /\ skip_detector' = r.self.skip_detector
           /\ prev_processed_roi' = r.self.prev_processed_roi
           /\ frame_count' = IF r.raised THEN frame_count ELSE frame_count + 1
           /\ run' = IF r.raised THEN "aborted" ELSE "running"
           /\ frame_bgr' = r.frame_bgr
           /\ last' = [op |-> "process_frame", frame_index |-> frame_count,
                       frame |-> frame, must |-> r.must, hit |-> r.hit, used |-> r.used,
                       raised |-> r.raised, log |-> r.log, result |-> r.result]
           /\ UNCHANGED <<put_order, last_must, detectorVars, videos, video_index, pc, reported,
                          roi_coords, roi_mask, mask_calls>>

BlendNext == \E frame \in Frames \cup {StripFrame} : ProcessFrame(frame)

SpecBlend == BlendInit /\ [][BlendNext]_vars

(***************************************************************************)
(* A batch: the loop of __main__ over the videos, without preview.  The    *)
(* mask is generated from the first video, whose frames have the size      *)
(* FrameH x FrameW; the videos after it have any of the sizes VideoSizes.  *)
(***************************************************************************)
BatchInit ==
    /\ videos \in UNION {[1..n -> VideoSizes] : n \in 1..MaxVideos}
    /\ videos[1] = [h |-> FrameH, w |-> FrameW]
    /\ watermark_detector = WatermarkDetectorInit(DefaultSampleFrames, DefaultMinFrameCount,
                                                  DefaultKernelSize)
    /\ sampled = << >>
    /\ watermark_mask = [done |-> FALSE]
    /\ frame_cache = WatermarkProcessorInit.frame_cache
    /\ skip_detector = WatermarkProcessorInit.skip_detector
    /\ InitRest
    /\ video_index = 0
    /\ pc = "loop"
    /\ reported = << >>
    /\ roi_coords = None
    /\ roi_mask = None
    /\ mask_calls = 0
    /\ frame_bgr = None

\* the binarized regions of the sampled frames of a video whose first seen
\* sampled frames binarize to binary_frame and whose others binarize to
\* nothing
ShownIn(self, binary_frame, seen) ==
    [i \in 1..self.num_sample_frames |-> IF i <= seen THEN binary_frame ELSE {}]

\* the body of the batch loop for the next video up to the frame loop of
\* process_video: the mask is generated if there is none, the region being
\* selected by selection (None when cv2.selectROI is not called) and the
\* sampled frames binarizing to binary_frames (an exception of
\* generate_mask ends the program); then process_video
\* either returns at once on a mask with no foreground (the loop prints the
\* video as processed and fails on processing_info['video_info']) or builds
\* a WatermarkProcessor and sets frame_count to 0
StartVideo(selection) ==
    /\ pc = "loop"
    /\ video_index < Len(videos)
    /\ video_index' = video_index + 1
    /\ (selection = None) <=> ~(NeedsMask(watermark_mask) /\ watermark_detector.roi = None)
    /\ \E called \in {NeedsMask(watermark_mask)} :
       \E binary_frames \in
              IF called
              THEN {ShownIn(watermark_detector, binary_frame, seen) :
                       binary_frame \in
                           SUBSET RoiCoords(Selected(watermark_detector, selection).roi),
                       seen \in {watermark_detector.min_frame_count - 1,
                                 watermark_detector.min_frame_count,
                                 watermark_detector.num_sample_frames}}
              ELSE {<< >>} :
       \E g \in {IF called
                 THEN generate_mask(watermark_detector, selection, binary_frames)
                 ELSE [self |-> watermark_detector, raised |-> FALSE,
                       ret |-> watermark_mask.ret]} :
         /\ watermark_detector' = g.self
         /\ sampled' = IF called THEN binary_frames ELSE sampled
         /\ mask_calls' = IF called THEN mask_calls + 1 ELSE mask_calls
         /\ IF g.raised
            THEN /\ pc' = "crashed"
                 /\ last' = [op |-> "generate_mask", video |-> video_index + 1,
                             raised |-> TRUE]
                 /\ UNCHANGED <<watermark_mask, frame_cache, skip_detector,
                                prev_processed_roi, frame_count, run, last_must,
                                roi_coords, roi_mask, reported>>
            ELSE \E pv \in {process_video(videos[video_index + 1], g.ret)} :
                   /\ watermark_mask' = [done |-> TRUE, raised |-> FALSE, ret |-> g.ret]
                   /\ last' = [op |-> "process_video", video |-> video_index + 1,
                               empty |-> pv.empty, raised |-> pv.raised,
                               cache_before |-> Len(frame_cache.cache)]
                   /\ IF pv.empty
                      THEN /\ reported' = Append(reported, video_index + 1)
                           /\ pc' = "crashed"
                           /\ UNCHANGED <<frame_cache, skip_detector, prev_processed_roi,
                                          frame_count, run, last_must, roi_coords, roi_mask>>
                      ELSE /\ roi_coords' = pv.roi_coords
                           /\ roi_mask' = pv.roi_mask
                           /\ frame_cache' = WatermarkProcessorInit.frame_cache
                           /\ skip_detector' = WatermarkProcessorInit.skip_detector
                           /\ prev_processed_roi' = WatermarkProcessorInit.prev_processed_roi
                           /\ frame_count' = 0
                           /\ run' = "running"
                           /\ last_must' = [roi |-> None, processed |-> None,
                                            frame_index |-> -1]
                           /\ pc' = "frames"
                           /\ UNCHANGED reported
    /\ UNCHANGED <<put_order, videos, frame_bgr>>

\* process_frame_wrapper on the next frame of the current video; an
\* exception ends the program
BatchFrame(v) ==
    /\ pc = "frames"
    /\ frame_count < BatchFrames
    /\ \E frame \in {VideoFrame(videos[video_index], v)} :
         \E r \in process_frame_effect([frame_cache |-> frame_cache,
                                         skip_detector |-> skip_detector,
                                         prev_processed_roi |-> prev_processed_roi],
                                        roi_coords, roi_mask, frame, frame_count) :
           /\ frame_cache' = r.self.frame_cache
           /\ skip_detector' = r.self.skip_detector
           /\ prev_processed_roi' = r.self.prev_processed_roi
           /\ frame_count' = IF r.raised THEN frame_count ELSE frame_count + 1
           /\ run' = IF r.raised THEN "aborted" ELSE "running"
           /\ pc' = IF r.raised THEN "crashed" ELSE "frames"
           /\ frame_bgr' = frame
           /\ last' = [op |-> "process_frame", frame_index |-> frame_count,
                       frame |-> frame, must |-> r.must, hit |-> r.hit, used |-> r.used,
                       raised |-> r.raised, log |-> r.log]
           /\ last_must' = IF r.must /\ ~r.raised
                           THEN [roi |-> extract_roi(frame, roi_coords),
                                 processed |-> r.used, frame_index |-> frame_count]
                           ELSE last_must
    /\ UNCHANGED <<put_order, detectorVars, videos, video_index, reported, roi_coords, roi_mask,
                   mask_calls>>

\* the end of process_video after the last frame, and of the loop body: the
\* video is printed as processed
FinishVideo ==
    /\ pc = "frames"
    /\ frame_count >= 1
    /\ reported' = Append(reported, video_index)
    /\ pc' = IF video_index = Len(videos) THEN "done" ELSE "loop"
    /\ last' = [op |-> "processed", video |-> video_index]
    /\ UNCHANGED <<put_order, frame_cache, skip_detector, prev_processed_roi, frame_count, run,
                   last_must, detectorVars, videos, video_index, roi_coords, roi_mask,
                   mask_calls, frame_bgr>>

BatchNext ==
    \/ \E selection \in Selections \cup {None} : StartVideo(selection)
    \/ \E v \in {0, Gray} : BatchFrame(v)
    \/ FinishVideo

SpecBatch == BatchInit /\ [][BatchNext]_vars

(***************************************************************************)
(* Properties of the FrameCache (checked under SpecCache)                   *)
(***************************************************************************)
\* C1: for a FrameCache of capacity C >= 1, after any sequence of put and get
\* calls from the empty cache, the number of stored entries never exceeds C.
C1_SizeWithinCapacity ==
    /\ Len(frame_cache.cache) <= frame_cache.cache_size
    /\ Len(frame_cache.access_count) <= frame_cache.cache_size

\* a put into a full cache of the largest capacity has happened
C1_Witness ==
    /\ last.op = "put"
    /\ last.size_before = MaxCap
    /\ frame_cache.cache_size = MaxCap
    /\ Len(frame_cache.cache) = MaxCap

\* the stored signatures whose counter is the smallest
LeastCounted(access_count) ==
    {access_count[i].k : i \in {i \in 1..Len(access_count) :
                                    \A j \in 1..Len(access_count) :
                                        access_count[i].v <= access_count[j].v}}

\* the position of a signature in a tuple of distinct signatures
PositionIn(order, key) == CHOOSE i \in 1..Len(order) : order[i] = key

C3_PutThenGet == (last.op = "get" /\ last.fresh) => last.ret = last.fresh_arg

\* get(R) right after put(R, P) on the empty cache, with threshold 0
C3_Witness ==
    /\ last.op = "get"
    /\ last.fresh
    /\ last.ret # None
    /\ frame_cache.similarity_threshold = 0

\* C4: get(R) is a hit iff the cache is non-empty and the minimum Hamming
\* distance between R's hash and the stored hashes is <= T; a hit returns the
\* buffer of a minimum-distance entry and adds exactly 1 to that entry's
\* counter and to no other; a miss returns None and changes nothing.
C4_GetHitOrMiss ==
    [][ last'.op = "get" =>
            \E frame_hash \in {compute_hash(last'.roi)} :
                LET c == frame_cache.cache
                    counts == frame_cache.access_count
                    Distance(i) == HashDistance(frame_hash, c[i].k)
                IN  IF \E i \in 1..Len(c) : Distance(i) <= frame_cache.similarity_threshold
                    THEN \E i \in 1..Len(c) :
                           /\ \A j \in 1..Len(c) : Distance(i) <= Distance(j)
                           /\ last'.ret = c[i].v
                           /\ last'.ret # None
                           /\ frame_cache'.cache = c
                           /\ frame_cache'.cache_size = frame_cache.cache_size
                           /\ frame_cache'.similarity_threshold =
                                  frame_cache.similarity_threshold
                           /\ Len(frame_cache'.access_count) = Len(counts)
                           /\ \A j \in 1..Len(counts) :
                                  /\ frame_cache'.access_count[j].k = counts[j].k
                                  /\ frame_cache'.access_count[j].v =
                                         IF counts[j].k = c[i].k THEN counts[j].v + 1
                                         ELSE counts[j].v
                    ELSE last'.ret = None /\ frame_cache' = frame_cache
      ]_vars

\* a hit on an entry whose hash differs from the hash looked up, in a cache
\* of two entries
C4_Witness ==
    /\ last.op = "get"
    /\ last.ret # None
    /\ Len(frame_cache.cache) = 2
    /\ compute_hash(last.roi) \notin DictKeys(frame_cache.cache)

\* C17: under any sequence of put and get calls the pixel buffer stored
\* for a signature never changes between its insertion and its eviction, a
\* put of content whose signature is already stored included.
C17_BufferImmutable ==
    [][ \A i \in 1..Len(frame_cache.cache) :
            \E key \in {frame_cache.cache[i].k} :
                (/\ key \in DictKeys(frame_cache'.cache)
                 /\ last'.op = "put" => \A j \in 1..Len(last'.evicted) : last'.evicted[j] # key)
                    => DictGet(frame_cache'.cache, key) = frame_cache.cache[i].v
      ]_vars

(***************************************************************************)
(* Properties of the FrameSkipDetector (checked under SpecSkip)             *)
(***************************************************************************)
\* C5: should_process_frame(frame_index, roi) returns true for every
\* frame_index that is a multiple of the keyframe interval K, whatever the
\* region, the scene-change threshold and the stored reference.
C5_KeyframesAlwaysProcessed ==
    (last.op = "should_process_frame"
        /\ last.frame_index % skip_detector.keyframe_interval = 0) => last.ret = TRUE

\* K = 5, frame 15, on a region equal to the reference
C5_Witness ==
    /\ last.op = "should_process_frame"
    /\ skip_detector.keyframe_interval = 5
    /\ skip_detector.scene_change_threshold = ProcSceneChangeThreshold
    /\ last.frame_index = 15
    /\ skip_detector.prev_roi = last.roi
    /\ last.ret

\* C9: with no previous reference the frame difference is the sentinel
\* infinity, and should_process_frame returns true for a frame evaluated
\* while the reference is None.
C9_NullReferenceForcesProcessing ==
    /\ \A roi \in Regions \cup {None} : calculate_frame_difference(roi, None).inf
    /\ (last.op = "should_process_frame" /\ skip_detector.prev_roi = None) => last.ret = TRUE

(***************************************************************************)
(* Properties of a video run (checked under Spec)                           *)
(***************************************************************************)
\* C6: in a video run the first frame is classified must-process, and in
\* every state in which a frame has taken the skip branch prev_processed_roi
\* is not None.
C6_SnapshotBeforeSkip ==
    last.op = "process_frame" =>
        /\ last.frame_index = 0 => last.must
        /\ ~last.must => (prev_processed_roi # None /\ last.used # None /\ ~last.raised)

\* a frame took the skip branch
C6_Witness ==
    /\ last.op = "process_frame"
    /\ ~last.must
    /\ last.frame_index = 1
    /\ prev_processed_roi # None

\* the reference and the snapshot are those of the last must-process frame
\* that was processed, and a skipped frame is blended with that snapshot
C7_ReferenceIsLastMust ==
    /\ skip_detector.prev_roi = last_must.roi
    /\ prev_processed_roi = last_must.processed
    /\ (last.op = "process_frame" /\ ~last.must) => last.used = last_must.processed

\* C7: a frame that takes the skip branch leaves the skip detector's
\* reference, prev_processed_roi and the whole cache unchanged and is blended
\* with the snapshot of the most recent must-process frame, so the reference
\* always equals the region of the most recent must-process frame processed,
\* not that of the preceding frame.
C7_SkipChangesNothing ==
    /\ []C7_ReferenceIsLastMust
    /\ [][ (last'.op = "process_frame" /\ ~last'.must) =>
               UNCHANGED <<frame_cache, skip_detector, prev_processed_roi>> ]_vars

\* a skipped frame whose region differs from the reference kept
C7_Witness ==
    /\ last.op = "process_frame"
    /\ ~last.must
    /\ ~last.raised
    /\ last.roi # skip_detector.prev_roi
    /\ skip_detector.prev_roi = last_must.roi

\* the position of a step in the log of a frame, 0 when it was not taken
LogIndex(log, step) ==
    IF \E i \in 1..Len(log) : log[i] = step
    THEN CHOOSE i \in 1..Len(log) : log[i] = step
    ELSE 0

\* C8: process_frame takes its steps in the order skip decision, cache
\* lookup, regeneration, cache insert, composite; the regeneration call is
\* made at most once per frame and exactly when the frame is must-process and
\* the lookup missed; its result is in the cache and is prev_processed_roi
\* before the frame is composited and before the next frame's decision.
C8_StepOrder ==
    [][ last'.op = "process_frame" =>
            \E must \in {should_process_frame(skip_detector, frame_count, last'.roi)},
               miss \in {get(frame_cache, last'.roi).ret = None},
               at \in {[step \in {"get", "lama_inpaint", "put", "prev_processed_roi",
                                  "composite"} |-> LogIndex(last'.log, step)]} :
                /\ last'.frame_index = frame_count
                /\ last'.must = must
                /\ last'.log[1] = "should_process_frame"
                /\ \A i, j \in 1..Len(last'.log) : i # j => last'.log[i] # last'.log[j]
                /\ (at["get"] # 0) = must
                /\ must => at["get"] = 2
                /\ (at["lama_inpaint"] # 0) = (must /\ miss)
                /\ at["lama_inpaint"] \in {0, 3}
                /\ (at["put"] # 0) = (at["lama_inpaint"] # 0 /\ ~last'.raised)
                /\ at["put"] # 0 =>
                       /\ at["put"] = 4
                       /\ at["prev_processed_roi"] > at["put"]
                       /\ at["composite"] > at["prev_processed_roi"]
                       /\ DictGet(frame_cache'.cache, compute_hash(last'.roi)) = last'.used
                       /\ prev_processed_roi' = last'.used
                /\ ~last'.raised => at["composite"] = Len(last'.log)
                /\ last'.raised => at["composite"] = 0
      ]_vars

\* a frame was regenerated after a lookup in a non-empty cache missed
C8_Witness ==
    /\ last.op = "process_frame"
    /\ ~last.raised
    /\ Len(frame_cache.cache) = 2
    /\ LogIndex(last.log, "lama_inpaint") = 3
    /\ LogIndex(last.log, "composite") = 7

\* C18: when the regeneration call fails on a must-process frame,
\* process_frame propagates the failure without a second regeneration call,
\* and the cache (entries and counters), the skip detector's reference and
\* prev_processed_roi are as they were before the frame.
C18_FailureLeavesState ==
    [][ (last'.op = "process_frame" /\ last'.raised /\ LogIndex(last'.log, "lama_inpaint") # 0)
            => /\ last'.must
               /\ UNCHANGED <<frame_cache, skip_detector, prev_processed_roi, frame_count>>
               /\ Cardinality({i \in 1..Len(last'.log) : last'.log[i] = "lama_inpaint"}) = 1
               /\ last'.log[Len(last'.log)] = "lama_inpaint"
               /\ run' = "aborted"
      ]_vars

\* the regeneration call failed on a frame after the first, the cache and the
\* reference holding what earlier frames left
C18_Witness ==
    /\ last.op = "process_frame"
    /\ last.raised
    /\ last.must
    /\ last.frame_index > 0
    /\ Len(frame_cache.cache) > 0
    /\ skip_detector.prev_roi # None
    /\ last.roi # skip_detector.prev_roi
    /\ run = "aborted"

\* C20: in a video run at most K - 1 consecutive frames take the skip
\* branch: the snapshot a frame is composited with was set by a must-process
\* frame at most K - 1 positions earlier.
C20_SkipsBounded ==
    (last.op = "process_frame" /\ ~last.raised) =>
        /\ last_must.frame_index >= 0
        /\ last.frame_index - last_must.frame_index <= skip_detector.keyframe_interval - 1
        /\ last.used = last_must.processed

\* K - 1 frames in a row were skipped
C20_Witness ==
    /\ last.op = "process_frame"
    /\ ~last.raised
    /\ ~last.must
    /\ last.frame_index - last_must.frame_index = skip_detector.keyframe_interval - 1

(***************************************************************************)
(* Properties of a stand-alone processor (checked under SpecProcessor)      *)
(***************************************************************************)
\* C19: when process_frame reaches the skip branch while prev_processed_roi
\* is None it raises and returns no frame, nothing is composited, and the
\* processor is left as it was.
C19_SkipWithoutSnapshotRaises ==
    [][ (last'.op = "process_frame" /\ ~last'.must /\ prev_processed_roi = None)
            => /\ last'.raised
               /\ last'.used = None
               /\ LogIndex(last'.log, "composite") = 0
               /\ UNCHANGED <<frame_cache, skip_detector, prev_processed_roi>>
      ]_vars

\* the first call of process_frame had frame index 1 and raised
C19_Witness ==
    /\ last.op = "process_frame"
    /\ last.frame_index = 1
    /\ ~last.must
    /\ last.raised
    /\ frame_count = 0
    /\ prev_processed_roi = None

(***************************************************************************)
(* Properties of the watermark localization (checked under SpecMask)        *)
(***************************************************************************)
\* the votes of pixel p over the sampled frames
VotesOf(p) ==
    Cardinality({i \in 1..Len(sampled) :
                    p \in sampled[i] /\ p \in RoiCoords(watermark_detector.roi)})

\* C10: generate_mask fails with NoWatermarkDetected, returning no mask,
\* whenever no pixel reaches min_frame_count foreground votes over the
\* sampled frames.
C10_NoVotesRaises ==
    (watermark_mask.done /\ \A p \in Coords : VotesOf(p) < watermark_detector.min_frame_count)
        => watermark_mask.raised

\* the masks of the sampled frames, as generate_mask builds them
SampledMasks ==
    [i \in 1..Len(sampled) |->
        detect_watermark_in_frame(watermark_detector, sampled[i]).ret]

\* C12: for fixed sampled masks voting is monotonic in min_frame_count: for
\* every m1 <= m2 every foreground pixel of the mask produced with m2 is a
\* foreground pixel of the mask produced with m1, before dilation and after.
C12_VotingMonotonic ==
    (last.op = "generate_mask" /\ ~watermark_mask.raised) =>
        \E masks \in {SampledMasks} :
            \E voted \in {ForegroundPixels(VotedMask(masks, watermark_detector.min_frame_count))},
               dilated \in {ForegroundPixels(watermark_mask.ret)} :
                \A m1 \in 1..(watermark_detector.min_frame_count - 1) :
                    /\ voted \subseteq ForegroundPixels(VotedMask(masks, m1))
                    /\ dilated \subseteq
                           ForegroundPixels(generate_mask([watermark_detector EXCEPT
                                                              !.min_frame_count = m1],
                                                          last.selection, sampled).ret)

\* a pixel marked in all the samples but one is left out of the mask at
\* min_frame_count = NumSamples and is in the mask at NumSamples - 1
C12_Witness ==
    /\ watermark_mask.done
    /\ ~watermark_mask.raised
    /\ watermark_detector.min_frame_count = NumSamples
    /\ \E p \in Coords :
           /\ VotesOf(p) = NumSamples - 1
           /\ watermark_mask.ret[p] = 0
           /\ generate_mask([watermark_detector EXCEPT !.min_frame_count = NumSamples - 1],
                            last.selection, sampled).ret[p] = Foreground

\* the foreground pixels of the mask given to get_roi_coordinates
MaskForeground == ForegroundPixels(watermark_mask.ret)

\* C15: for a non-empty mask and a margin >= 0 the bounds returned lie within
\* the frame and the slice [y_min:y_max, x_min:x_max] contains every
\* foreground pixel and extends the tight bounding box by margin pixels on
\* each of the four sides, unless clamped by the frame edge.
C15_BoxContainsForeground ==
    (last.op = "get_roi_coordinates" /\ MaskForeground # {}) =>
        /\ ~last.raised
        /\ 0 <= last.ret.y_min /\ last.ret.y_max <= FrameH
        /\ 0 <= last.ret.x_min /\ last.ret.x_max <= FrameW
        /\ \A p \in MaskForeground :
               /\ last.ret.y_min <= p[1] /\ p[1] < last.ret.y_max
               /\ last.ret.x_min <= p[2] /\ p[2] < last.ret.x_max
        /\ last.ret.y_min = Max2(0, MinOf({p[1] : p \in MaskForeground}) - last.margin)
        /\ last.ret.x_min = Max2(0, MinOf({p[2] : p \in MaskForeground}) - last.margin)
        /\ last.ret.y_max =
               Min2(FrameH, MaxValue({p[1] : p \in MaskForeground}) + 1 + last.margin)
        /\ last.ret.x_max =
               Min2(FrameW, MaxValue({p[2] : p \in MaskForeground}) + 1 + last.margin)

(***************************************************************************)
(* Properties of the blend (checked under SpecBlend)                        *)
(***************************************************************************)
\* the cell of the region that pixel p of the frame falls in
RegionCell(p) == <<p[1] - roi_coords.y_min, p[2] - roi_coords.x_min>>

InsideRegion(p) ==
    /\ roi_coords.y_min <= p[1] /\ p[1] < roi_coords.y_max
    /\ roi_coords.x_min <= p[2] /\ p[2] < roi_coords.x_max

\* the feather value at cell p of the region is 0
FeatherIsZero(p) == \E f \in {Feather(roi_mask, p)} : f = [k \in DOMAIN f |-> 0]

\* C13: the frame returned by process_frame equals the frame given at every
\* pixel outside the region, and inside the region at every pixel whose
\* feather value is 0; the frame buffer given is not modified.
C13_BlendKeepsOutside ==
    (last.op = "process_frame" /\ ~last.raised) =>
        /\ frame_bgr = last.frame
        /\ DOMAIN last.result = DOMAIN last.frame
        /\ \A p \in DOMAIN last.frame :
               (~InsideRegion(p) \/ FeatherIsZero(RegionCell(p)))
                   => last.result[p] = last.frame[p]

\* a frame was returned with a pixel outside the region, a pixel of the
\* region of feather 0, and a pixel of the region changed by the blend
C13_Witness ==
    /\ last.op = "process_frame"
    /\ ~last.raised
    /\ \E p \in DOMAIN last.frame : ~InsideRegion(p)
    /\ \E p \in DOMAIN last.frame :
           /\ InsideRegion(p)
           /\ FeatherIsZero(RegionCell(p))
           /\ last.used[RegionCell(p)] # last.frame[p]
    /\ \E p \in DOMAIN last.frame : last.result[p] # last.frame[p]

(***************************************************************************)
(* Properties of a batch (checked under SpecBatch)                          *)
(***************************************************************************)
\* C11: a mask with no foreground pixel given to the bounding-box step,
\* through get_roi_coordinates or through process_video, raises: the video's
\* processing is aborted with no frame processed, and the batch loop never
\* prints that video as successfully processed.
C11_EmptyMaskRaises ==
    (last.op = "process_video" /\ ForegroundPixels(watermark_mask.ret) = {}) =>
        /\ get_roi_coordinates(watermark_mask.ret, ProcMargin).raised
        /\ last.raised
        /\ \A i \in 1..Len(reported) : reported[i] # last.video

\* C14: for every video of a batch, those after the first with another frame
\* size included, the cropped mask given to the WatermarkProcessor has the
\* height and width of the region extracted from the video's frames, and a
\* video whose frame size is inconsistent with the mask is rejected before
\* any frame is composited.
C14_MaskMatchesRegion ==
    /\ pc = "frames" =>
           DOMAIN roi_mask = DOMAIN extract_roi(VideoFrame(videos[video_index], 0), roi_coords)
    /\ (last.op = "process_video"
           /\ (videos[last.video].h # Height(watermark_mask.ret)
                  \/ videos[last.video].w # Width(watermark_mask.ret)))
          => (last.raised /\ pc = "crashed")

\* C16: across a batch the mask is generated exactly once, from the first
\* video, and never changes afterwards, and every video starts with an empty
\* cache, no reference, no snapshot and frame index 0.
C16_MaskOnceFreshState ==
    /\ [](/\ mask_calls <= 1
          /\ watermark_mask.done => mask_calls = 1
          /\ video_index >= 1 => mask_calls = 1
          /\ (mask_calls = 1 /\ ~watermark_mask.done) => pc = "crashed")
    /\ [][ /\ watermark_mask.done => watermark_mask' = watermark_mask
           /\ mask_calls' # mask_calls => video_index' = 1
           /\ (video_index' # video_index /\ pc' = "frames") =>
                  /\ frame_cache'.cache = << >>
                  /\ frame_cache'.access_count = << >>
                  /\ skip_detector'.prev_roi = None
                  /\ prev_processed_roi' = None
                  /\ frame_count' = 0
         ]_vars

\* the second video starts after a first video that left entries in its
\* cache
C16_Witness ==
    /\ last.op = "process_video"
    /\ last.video = 2
    /\ last.cache_before > 0
    /\ pc = "frames"
    /\ frame_cache.cache = << >>
    /\ watermark_mask.done
    /\ mask_calls = 1

=============================================================================
